---- MODULE Spec2Model ----
(***************************************************************************)
(* Shared values (theano/compile/sharedvalue.py) and the random stream     *)
(* manager built on them (theano/tensor/shared_randomstreams.py).          *)
(*                                                                         *)
(* Python objects live in a heap of cells addressed by identity, so that   *)
(* aliasing (borrow) and copying (copy.deepcopy) are different things.     *)
(* A cell that no root reaches is reclaimed, as by reference counting.     *)
(***************************************************************************)
EXTENDS Integers, Sequences, FiniteSets, TLC

VARIABLES
    heap,           \* Addr -> cell: the Python objects that are values
    containers,     \* sequence of Container objects, index = identity
    states,         \* sequence of SharedVariable objects, index = identity
    origin,         \* history: per SharedVariable, the call that made it
    tags,           \* sequence of tag scratchpads, index = identity
    v,              \* a caller's local: an object the caller made (0 = None)
    r,              \* a caller's local: the object get_value returned last
    rhow,           \* history: how the caller came to hold r
    wrote,          \* history: per container, the last successful write to it
    raised,         \* the exception the last call raised, "none" if it returned
    last,           \* history: the last call and its arguments
    value_borrows,  \* config.shared.value_borrows
    constructors,   \* shared.constructors
    outcome,        \* history: what the last shared() call tried and gave
    mgr,            \* the RandomStreams instances
    hist,           \* history: per RandomStreams instance, its calls so far
    snapshot        \* the list the last updates() call returned, as the caller has it

vars == <<heap, containers, states, origin, tags, v, r, rhow, wrote, raised, last,
          value_borrows, constructors, outcome, mgr, hist, snapshot>>

----------------------------------------------------------------------------
(* Bounds of the model                                                     *)

MaxObj == 8
MaxData == 1
MaxClones == 1
MaxCtors == 5
MaxCalls == 5
MaxVars == 3
MaxSnapCalls == 3
MaxEdits == 2
MaxPairCalls == 3

Addr == 1..MaxObj
Data == 0..MaxData
PyNone == 0

----------------------------------------------------------------------------
(* The heap. A value is an object that holds another object with the data  *)
(* (a "box" holding an "obj", as a list or an array of objects does), or a *)
(* numpy RandomState ("rng") whose data is the generator's internal state. *)

FreeCell == [kind |-> "free", data |-> 0, child |-> PyNone]

Cell(kind, data, child) == [kind |-> kind, data |-> data, child |-> child]

RECURSIVE Chain(_, _)
Chain(h, a) ==
    IF a = PyNone THEN <<>> ELSE <<a>> \o Chain(h, h[a].child)

Reach(h, a) == {Chain(h, a)[i] : i \in 1..Len(Chain(h, a))}

\* The value of an object whatever its identity
RECURSIVE DeepVal(_, _)
DeepVal(h, a) ==
    IF a = PyNone THEN <<>>
    ELSE <<h[a].kind, h[a].data, DeepVal(h, h[a].child)>>

FreeAddrs(h) == {a \in Addr : h[a].kind = "free"}

Lowest(S) == CHOOSE a \in S : \A b \in S : a <= b

\* copy.deepcopy(a): new objects for a and all it holds
RECURSIVE deepcopy(_, _)
deepcopy(h, a) ==
    IF a = PyNone THEN [heap |-> h, addr |-> PyNone]
    ELSE LET n == Lowest(FreeAddrs(h))
             h1 == [h EXCEPT ![n] = Cell(h[a].kind, h[a].data, PyNone)]
             sub == deepcopy(h1, h[a].child)
         IN [heap |-> [sub.heap EXCEPT ![n].child = sub.addr], addr |-> n]

\* The references from which objects are reached, in a fixed order
RootSeq(cs, tg, vv, rr) ==
    <<vv, rr>> \o [c \in 1..Len(cs) |-> cs[c].storage] \o [t \in 1..Len(tg) |-> tg[t].a]

RECURSIVE VisitFrom(_, _, _)
VisitFrom(h, roots, i) ==
    IF i > Len(roots) THEN <<>> ELSE Chain(h, roots[i]) \o VisitFrom(h, roots, i + 1)

\* The place of object a among the distinct objects of seq, in the order of
\* their first occurrence
Rank(seq, a) ==
    LET first == CHOOSE i \in 1..Len(seq) : seq[i] = a /\ \A j \in 1..(i - 1) : seq[j] # a
    IN Cardinality({seq[j] : j \in 1..first})

\* Objects that nothing refers to are reclaimed, and the objects that remain
\* are numbered in the order the roots reach them: an object's address
\* carries no information beyond which references are the same object.
Normal(h, cs, tg, vv, rr) ==
    LET seq == VisitFrom(h, RootSeq(cs, tg, vv, rr), 1)
        live == {seq[i] : i \in 1..Len(seq)}
        new == [a \in live \cup {PyNone} |-> IF a = PyNone THEN PyNone ELSE Rank(seq, a)]
        old == [n \in 1..Cardinality(live) |-> CHOOSE a \in live : new[a] = n]
    IN [heap |-> [n \in Addr |-> IF n <= Cardinality(live)
                                 THEN Cell(h[old[n]].kind, h[old[n]].data, new[h[old[n]].child])
                                 ELSE FreeCell],
        containers |-> [c \in 1..Len(cs) |-> [cs[c] EXCEPT !.storage = new[@]]],
        tags |-> [t \in 1..Len(tg) |-> [a |-> new[tg[t].a]]],
        v |-> new[vv],
        r |-> new[rr]]

----------------------------------------------------------------------------
(* Type and Container: theano.gof, used by this code but not part of it.   *)

Types == {"generic", "random_state_type"}

KindOf(h, a) == IF a = PyNone THEN "none" ELSE h[a].kind

\* type.filter(value, strict=..., allow_downcast=...): the typed value, or a
\* TypeError. The generic type takes any object as it is; the random state
\* type takes a RandomState as it is and nothing else.
Type_filter(type, h, a, strict, allow_downcast) ==
    IF type = "generic" \/ KindOf(h, a) = "rng"
    THEN [raised |-> "none", value |-> a]
    ELSE [raised |-> "TypeError", value |-> PyNone]

\* Container(r, storage, readonly, strict, allow_downcast)
Container(owner, type, storage, readonly, strict, allow_downcast) ==
    [owner |-> owner, type |-> type, storage |-> storage, readonly |-> readonly,
     strict |-> strict, allow_downcast |-> allow_downcast]

\* container.value = a. A readonly container refuses; otherwise the value is
\* stored after the type's filter, unless the write is an unchecked one.
Container_write(c, h, a, skip_filter) ==
    LET f == Type_filter(c.type, h, a, c.strict, c.allow_downcast) IN
    IF c.readonly THEN [raised |-> "ReadOnlyViolation", container |-> c]
    ELSE IF skip_filter THEN [raised |-> "none", container |-> [c EXCEPT !.storage = a]]
    ELSE IF f.raised # "none" THEN [raised |-> f.raised, container |-> c]
    ELSE [raised |-> "none", container |-> [c EXCEPT !.storage = f.value]]

\* container.value
Container_read(c) == c.storage

\* Whether the setter filters a borrowed value is not decided by this code:
\* both behaviours of the Container are explored.
SkipChoices(borrow) == IF borrow THEN BOOLEAN ELSE {FALSE}

----------------------------------------------------------------------------
(* SharedVariable                                                          *)

NoContainer == 0
EmptyTag == [a |-> PyNone]

\* SharedVariable.__init__(self, name, type, value, strict, allow_downcast,
\* container) for an instance of class cls. sts, cs, tg are the objects that
\* exist; the result holds them with the new objects added, or the exception.
\* SharedVariable.__init__(self, name, type, value, strict, allow_downcast,
\* container) without the test of value and strict when a container is given
SharedVariable_init_unchecked(sts, cs, tg, h, cls, name, type, value, strict, allow_downcast, container) ==
    LET self == Len(sts) + 1
        f == Type_filter(type, h, value, strict, allow_downcast)
        obj(c) == [cls |-> cls, name |-> name, type |-> type, container |-> c,
                   tag |-> Len(tg) + 1]
    IN
    IF container # NoContainer
    THEN [raised |-> "none", self |-> self, states |-> Append(sts, obj(container)),
          containers |-> cs, tags |-> Append(tg, EmptyTag)]
    ELSE IF f.raised # "none"
         THEN [raised |-> "TypeError", self |-> 0, states |-> sts,
               containers |-> cs, tags |-> tg]
         ELSE [raised |-> "none", self |-> self,
               states |-> Append(sts, obj(Len(cs) + 1)),
               containers |-> Append(cs, Container(self, type, f.value, FALSE,
                                                   strict, allow_downcast)),
               tags |-> Append(tg, EmptyTag)]

\* __init__ that sets the new Container as the attribute container of the
\* class, where every instance reads it
SharedVariable_init_class_attribute(sts, cs, tg, h, cls, name, type, value, strict, allow_downcast, container) ==
    LET self == Len(sts) + 1
        f == Type_filter(type, h, value, strict, allow_downcast)
        obj(c) == [cls |-> cls, name |-> name, type |-> type, container |-> c,
                   tag |-> Len(tg) + 1]
        fail == [raised |-> "TypeError", self |-> 0, states |-> sts,
                 containers |-> cs, tags |-> tg]
    IN
    IF container # NoContainer
    THEN IF value # PyNone \/ strict # "None"
         THEN fail
         ELSE [raised |-> "none", self |-> self,
               states |-> Append(sts, obj(container)),
               containers |-> cs, tags |-> Append(tg, EmptyTag)]
    ELSE IF f.raised # "none"
         THEN fail
         ELSE [raised |-> "none", self |-> self,
               states |-> Append([i \in 1..Len(sts) |->
                                    [sts[i] EXCEPT !.container = Len(cs) + 1]],
                                 obj(Len(cs) + 1)),
               containers |-> Append(cs, Container(self, type, f.value, FALSE,
                                                   strict, allow_downcast)),
               tags |-> Append(tg, EmptyTag)]

SharedVariable_init(sts, cs, tg, h, cls, name, type, value, strict, allow_downcast, container) ==
    LET self == Len(sts) + 1
        f == Type_filter(type, h, value, strict, allow_downcast)
        obj(c) == [cls |-> cls, name |-> name, type |-> type, container |-> c,
                   tag |-> Len(tg) + 1]
        fail == [raised |-> "TypeError", self |-> 0, states |-> sts,
                 containers |-> cs, tags |-> tg]
    IN
    IF container # NoContainer
    THEN IF value # PyNone \/ strict # "None"
         THEN fail
         ELSE [raised |-> "none", self |-> self,
               states |-> Append(sts, obj(container)),
               containers |-> cs, tags |-> Append(tg, EmptyTag)]
    ELSE IF f.raised # "none"
         THEN fail
         ELSE [raised |-> "none", self |-> self,
               states |-> Append(sts, obj(Len(cs) + 1)),
               containers |-> Append(cs, Container(self, type, f.value, FALSE,
                                                   strict, allow_downcast)),
               tags |-> Append(tg, EmptyTag)]

\* copy.copy(a): a new object that holds the same objects as a
shallowcopy(h, a) ==
    IF a = PyNone THEN [heap |-> h, addr |-> PyNone]
    ELSE LET n == Lowest(FreeAddrs(h))
         IN [heap |-> [h EXCEPT ![n] = h[a]], addr |-> n]

\* get_value with copy.copy in place of copy.deepcopy
get_value_shallow(h, c, borrow) ==
    IF borrow
    THEN [heap |-> h, value |-> Container_read(c)]
    ELSE LET cp == shallowcopy(h, Container_read(c))
         IN [heap |-> cp.heap, value |-> cp.addr]

\* self.get_value(borrow) on a variable bound to container c
get_value(h, c, borrow) ==
    IF borrow
    THEN [heap |-> h, value |-> Container_read(c)]
    ELSE LET cp == deepcopy(h, Container_read(c))
         IN [heap |-> cp.heap, value |-> cp.addr]

\* set_value with copy.copy in place of copy.deepcopy
set_value_shallow(h, c, new_value, borrow, skip_filter) ==
    IF borrow
    THEN LET w == Container_write(c, h, new_value, skip_filter)
         IN [heap |-> h, raised |-> w.raised, container |-> w.container]
    ELSE LET cp == shallowcopy(h, new_value)
             w == Container_write(c, cp.heap, cp.addr, skip_filter)
         IN [heap |-> cp.heap, raised |-> w.raised, container |-> w.container]

\* set_value that copies whatever borrow is
set_value_copies(h, c, new_value, borrow, skip_filter) ==
    LET cp == deepcopy(h, new_value)
        w == Container_write(c, cp.heap, cp.addr, skip_filter)
    IN [heap |-> cp.heap, raised |-> w.raised, container |-> w.container]

\* set_value that puts the copy into the container's storage itself
\* (container.storage[0] = ...) instead of assigning container.value
set_value_storage(h, c, new_value, borrow, skip_filter) ==
    LET cp == IF borrow THEN [heap |-> h, addr |-> new_value] ELSE deepcopy(h, new_value)
    IN [heap |-> cp.heap, raised |-> "none", container |-> [c EXCEPT !.storage = cp.addr]]

\* self.set_value(new_value, borrow) on a variable bound to container c
set_value(h, c, new_value, borrow, skip_filter) ==
    IF borrow
    THEN LET w == Container_write(c, h, new_value, skip_filter)
         IN [heap |-> h, raised |-> w.raised, container |-> w.container]
    ELSE LET cp == deepcopy(h, new_value)
             w == Container_write(c, cp.heap, cp.addr, skip_filter)
         IN [heap |-> cp.heap, raised |-> w.raised, container |-> w.container]

\* clone() that gives the new instance a container of its own, which holds
\* the same object
clone_own_container(sts, cs, tg, h, s) ==
    LET own == Len(cs) + 1
        n == SharedVariable_init(sts, Append(cs, [cs[sts[s].container] EXCEPT !.owner = Len(sts) + 1]),
                                 tg, h, sts[s].cls, sts[s].name, sts[s].type,
                                 PyNone, "None", "None", own)
    IN IF n.raised # "none" THEN n
       ELSE [n EXCEPT !.tags = Append(tg, tg[sts[s].tag])]

\* clone() that gives the new instance the tag of self itself
clone_same_tag(sts, cs, tg, h, s) ==
    LET n == SharedVariable_init(sts, cs, tg, h, sts[s].cls, sts[s].name, sts[s].type,
                                 PyNone, "None", "None", sts[s].container)
    IN IF n.raised # "none" THEN n
       ELSE [n EXCEPT !.states[Len(sts) + 1].tag = sts[s].tag]

\* self.clone(): a new instance of the same class on the same container,
\* with a shallow copy of the tag
clone(sts, cs, tg, h, s) ==
    LET n == SharedVariable_init(sts, cs, tg, h, sts[s].cls, sts[s].name, sts[s].type,
                                 PyNone, "None", "None", sts[s].container)
    IN IF n.raised # "none" THEN n
       ELSE [n EXCEPT !.tags = Append(tg, tg[sts[s].tag])]

----------------------------------------------------------------------------
(* The registry of constructors and shared()                               *)

\* shared.constructors once both modules are imported: sharedvalue registers
\* generic_constructor, shared_randomstreams then randomstate_constructor
DefaultConstructors == <<"generic_constructor", "randomstate_constructor">>

\* Constructors a user registers: A makes a variable of a box, B of a
\* RandomState, and both raise TypeError for another value; C makes nothing,
\* it raises TypeError for a box and ValueError for anything else. B takes
\* the keyword borrow.
UserConstructors == {"A", "B", "C"}

\* The keywords the constructor's signature takes
Params(ctor) ==
    CASE ctor = "generic_constructor" -> {"name", "strict", "allow_downcast"}
      [] ctor = "randomstate_constructor" -> {"name", "strict"}
      [] ctor = "B" -> {"name", "strict", "allow_downcast", "borrow"}
      [] OTHER -> {"name", "strict", "allow_downcast"}

Env(sts, cs, tg, h) == [states |-> sts, containers |-> cs, tags |-> tg, heap |-> h]

Call(value, name, strict, allow_downcast, kwargs) ==
    [value |-> value, name |-> name, strict |-> strict,
     allow_downcast |-> allow_downcast, kwargs |-> kwargs]

Failed(env, exc) ==
    [raised |-> exc, self |-> 0, states |-> env.states,
     containers |-> env.containers, tags |-> env.tags]

\* generic_constructor that does not take None
generic_constructor_not_none(env, call) ==
    IF call.value = PyNone
    THEN Failed(env, "TypeError")
    ELSE SharedVariable_init(env.states, env.containers, env.tags, env.heap, "SharedVariable",
                             call.name, "generic", call.value, call.strict,
                             call.allow_downcast, NoContainer)

\* generic_constructor(value, name, strict, allow_downcast)
generic_constructor(env, call) ==
    SharedVariable_init(env.states, env.containers, env.tags, env.heap, "SharedVariable",
                        call.name, "generic", call.value, call.strict,
                        call.allow_downcast, NoContainer)

\* randomstate_constructor(value, name, strict)
randomstate_constructor(env, call) ==
    IF KindOf(env.heap, call.value) # "rng"
    THEN Failed(env, "TypeError")
    ELSE SharedVariable_init(env.states, env.containers, env.tags, env.heap,
                             "RandomStateSharedVariable", call.name, "random_state_type",
                             call.value, call.strict, "None", NoContainer)

user_constructor(ctor, env, call) ==
    LET kind == KindOf(env.heap, call.value)
        takes == (ctor = "A" /\ kind = "box") \/ (ctor = "B" /\ kind = "rng")
    IN IF takes
       THEN SharedVariable_init(env.states, env.containers, env.tags, env.heap, ctor,
                                call.name, "generic", call.value, call.strict,
                                call.allow_downcast, NoContainer)
       ELSE IF ctor = "C" /\ kind # "box" THEN Failed(env, "ValueError")
       ELSE Failed(env, "TypeError")

\* ctor(value, name=name, strict=strict, allow_downcast=allow_downcast,
\* **kwargs): a keyword that the signature does not take is a TypeError of the
\* call itself, before the constructor's body runs.
CallCtor(ctor, env, call) ==
    IF ~(({"name", "strict", "allow_downcast"} \cup call.kwargs) \subseteq Params(ctor))
    THEN Failed(env, "TypeError")
    ELSE CASE ctor = "generic_constructor" -> generic_constructor(env, call)
           [] ctor = "randomstate_constructor" -> randomstate_constructor(env, call)
           [] OTHER -> user_constructor(ctor, env, call)

\* shared_constructor(ctor)
shared_constructor(ctors, ctor) == Append(ctors, ctor)

Returned(res, tr, args) ==
    [raised |-> res.raised, self |-> res.self, states |-> res.states,
     containers |-> res.containers, tags |-> res.tags, tried |-> tr, args |-> args]

\* The loop of shared() over the constructors in the order of the list
RECURSIVE shared_forward(_, _, _, _, _)
shared_forward(ctors, i, env, call, tr) ==
    IF i > Len(ctors)
    THEN Returned(Failed(env, "TypeError"), tr, <<call.value, call.kwargs>>)
    ELSE LET res == CallCtor(ctors[i], env, call)
         IN IF res.raised = "TypeError"
            THEN shared_forward(ctors, i + 1, env, call, Append(tr, ctors[i]))
            ELSE Returned(res, Append(tr, ctors[i]), <<>>)

shared_in_order(ctors, env, call) == shared_forward(ctors, 1, env, call, <<>>)

\* The loop of shared() that ends with a TypeError without arguments
RECURSIVE shared_loop_bare(_, _, _, _, _)
shared_loop_bare(ctors, i, env, call, tr) ==
    IF i = 0
    THEN Returned(Failed(env, "TypeError"), tr, <<>>)
    ELSE LET res == CallCtor(ctors[i], env, call)
         IN IF res.raised = "TypeError"
            THEN shared_loop_bare(ctors, i - 1, env, call, Append(tr, ctors[i]))
            ELSE Returned(res, Append(tr, ctors[i]), <<>>)

\* for ctor in reversed(shared.constructors), from the i-th constructor down;
\* tr is the constructors called so far
RECURSIVE shared_loop(_, _, _, _, _)
shared_loop(ctors, i, env, call, tr) ==
    IF i = 0
    THEN Returned(Failed(env, "TypeError"), tr, <<call.value, call.kwargs>>)
    ELSE LET res == CallCtor(ctors[i], env, call)
         IN IF res.raised = "TypeError"
            THEN shared_loop(ctors, i - 1, env, call, Append(tr, ctors[i]))
            ELSE Returned(res, Append(tr, ctors[i]), <<>>)

\* shared(value, name, strict, allow_downcast, **kwargs)
shared(ctors, env, call) == shared_loop(ctors, Len(ctors), env, call, <<>>)

\* What filter_update is given: a Variable, or a value that is not one
Update(is_variable, var, value) ==
    [is_variable |-> is_variable, var |-> var, value |-> value]

\* self.filter_update(update): the update itself when it is a Variable, else
\* shared(update)
filter_update(ctors, env, update) ==
    IF update.is_variable
    THEN Returned([raised |-> "none", self |-> update.var, states |-> env.states,
                   containers |-> env.containers, tags |-> env.tags], <<>>, <<>>)
    ELSE shared(ctors, env, Call(update.value, "None", "False", "None", {}))

Outcome(tr, self, args, kwargs) ==
    [tried |-> tr, self |-> self, args |-> args, kwargs |-> kwargs]

NoOutcome == Outcome(<<>>, 0, <<>>, {})

----------------------------------------------------------------------------
(* numpy.random.RandomState and RandomStreams                              *)

\* seed=None
SeedNone == -1

\* The integer seeds that callers pass
Seeds == {1, 2}

\* What the operating system's entropy gives to a RandomState made without
\* a seed: it differs from one call to the next
Entropy == {11, 12}

\* The generator of numpy is stood for by a linear congruential generator
\* of full period: the state after RandomState(seed) is a function of an
\* integer seed, and randint steps the state and returns a number below the
\* bound.
Modulus == 65537
Multiplier == 75
Increment == 74

\* numpy.random.RandomState(seed): the state of the new generator; e is the
\* entropy it takes when seed is None
RandomState(seed, e) == IF seed = SeedNone THEN e ELSE seed % Modulus

\* rng.randint(2**30) on a generator in state x
randint(x) ==
    LET next == (Multiplier * x + Increment) % Modulus
    IN [state |-> next, value |-> next % (2 ^ 30)]

\* The k-th number that a generator started in state x returns
RECURSIVE DrawN(_, _)
DrawN(x, k) == IF k = 1 THEN randint(x).value ELSE DrawN(randint(x).state, k - 1)

\* The state of a generator started in state x after k calls of randint
RECURSIVE StateN(_, _)
StateN(x, k) == IF k = 0 THEN x ELSE StateN(randint(x).state, k - 1)

\* The RandomState object in state x, on the heap
NewRandomState(h, x) ==
    LET n == Lowest(FreeAddrs(h))
    IN [heap |-> [h EXCEPT ![n] = Cell("rng", x, PyNone)], addr |-> n]

\* __init__ that makes gen_seedgen without the seed
RandomStreams_init_unseeded(seed, e) ==
    [random_state_variables |-> <<>>,
     default_instance_seed |-> seed,
     gen_seedgen |-> RandomState(SeedNone, IF seed = SeedNone THEN e ELSE 11)]

\* RandomStreams.__init__(seed)
RandomStreams_init(seed, e) ==
    [random_state_variables |-> <<>>,
     default_instance_seed |-> seed,
     gen_seedgen |-> RandomState(seed, e)]

\* list(l): a new list of the items of l. alias says whether the list is
\* the object l itself
list(l) == [items |-> l, alias |-> FALSE]

\* updates() that returns the list of the instance itself
updates_alias(m) == [items |-> m.random_state_variables, alias |-> TRUE]

\* self.updates()
updates(m) == list(m.random_state_variables)

\* The list that the caller got from updates() of the manager of, and the
\* number of changes the caller made to it
Snapshot(u, of, edits) == [items |-> u.items, alias |-> u.alias, of |-> of, edits |-> edits]

NoSnapshot == Snapshot(list(<<>>), 0, 0)

\* self.value = new_value, the deprecated property
value_set(h, c, new_value, borrows, skip_filter) ==
    set_value(h, c, new_value, borrows, skip_filter)

\* The loop of seed() from the i-th pair on, with seedgen in state x;
\* assigned is the seeds given to the streams before
RECURSIVE seed_loop(_, _, _, _, _, _, _)
seed_loop(env, pairs, i, x, borrows, skip, assigned) ==
    IF i > Len(pairs)
    THEN [heap |-> env.heap, containers |-> env.containers, tags |-> env.tags,
          raised |-> "none", assigned |-> assigned, x |-> x]
    ELSE LET d == randint(x)
             rs == NewRandomState(env.heap, RandomState(d.value, 0))
             ci == env.states[pairs[i][1]].container
             w == value_set(rs.heap, env.containers[ci], rs.addr, borrows, skip)
             n == Normal(w.heap, [env.containers EXCEPT ![ci] = w.container],
                         env.tags, PyNone, PyNone)
         IN IF w.raised # "none"
            THEN [heap |-> env.heap, containers |-> env.containers, tags |-> env.tags,
                  raised |-> w.raised, assigned |-> assigned, x |-> d.state]
            ELSE seed_loop(Env(env.states, n.containers, n.tags, n.heap), pairs, i + 1,
                           d.state, borrows, skip, Append(assigned, d.value))

SeedResult(m, eff, l) ==
    [mgr |-> m, eff |-> eff, heap |-> l.heap, containers |-> l.containers,
     tags |-> l.tags, raised |-> l.raised, assigned |-> l.assigned]

EffectiveSeed(m, arg) == IF arg = SeedNone THEN m.default_instance_seed ELSE arg

\* seed() that draws from the generator of the instance, self.gen_seedgen
seed_continues(m, env, arg, e, borrows, skip) ==
    LET eff == EffectiveSeed(m, arg)
        l == seed_loop(env, m.random_state_variables, 1, m.gen_seedgen, borrows, skip, <<>>)
    IN SeedResult([m EXCEPT !.gen_seedgen = l.x], eff, l)

\* seed() that also starts self.gen_seedgen again from the seed
seed_restarts(m, env, arg, e, borrows, skip) ==
    LET eff == EffectiveSeed(m, arg)
    IN SeedResult([m EXCEPT !.gen_seedgen = RandomState(eff, e)], eff,
                  seed_loop(env, m.random_state_variables, 1, RandomState(eff, e),
                            borrows, skip, <<>>))

\* seed() that gives a new state to every shared variable there is, not only
\* to those of self.random_state_variables
seed_every_variable(m, env, arg, e, borrows, skip) ==
    LET eff == EffectiveSeed(m, arg)
    IN SeedResult(m, eff, seed_loop(env, [i \in 1..Len(env.states) |-> <<i, 0>>], 1,
                                    RandomState(eff, e), borrows, skip, <<>>))

\* seed() that keeps the seed it was given as the seed of the instance
seed_sets_default(m, env, arg, e, borrows, skip) ==
    LET eff == EffectiveSeed(m, arg)
    IN SeedResult([m EXCEPT !.default_instance_seed = eff], eff,
                  seed_loop(env, m.random_state_variables, 1, RandomState(eff, e),
                            borrows, skip, <<>>))

\* self.seed(seed): e is the entropy that RandomState(None) takes
seed(m, env, arg, e, borrows, skip) ==
    LET eff == EffectiveSeed(m, arg)
    IN SeedResult(m, eff, seed_loop(env, m.random_state_variables, 1, RandomState(eff, e),
                                    borrows, skip, <<>>))

\* What op(random_state_variable, *args, **kwargs) gives: it raises, or it
\* returns the two new graph variables new_r and out
OpReturn(exc, new_r, out) == [raised |-> exc, new_r |-> new_r, out |-> out]

GenResult(m, exc, sh, env, out, sd) ==
    [mgr |-> m, raised |-> exc, tried |-> sh.tried, self |-> sh.self, args |-> sh.args,
     heap |-> env.heap, states |-> env.states, containers |-> env.containers,
     tags |-> env.tags, out |-> out, seed |-> sd]

NoOut == [id |-> 0, rng |-> 0]

\* gen() that puts the new pair in front of the list
gen_prepends(m, env, ctors, op) ==
    LET d == randint(m.gen_seedgen)
        rs == NewRandomState(env.heap, RandomState(d.value, 0))
        sh == shared(ctors, [env EXCEPT !.heap = rs.heap],
                     Call(rs.addr, "None", "False", "None", {}))
        m1 == [m EXCEPT !.gen_seedgen = d.state]
    IN IF sh.raised # "none" THEN GenResult(m1, sh.raised, sh, env, NoOut, d.value)
       ELSE IF op.raised # "none" THEN GenResult(m1, op.raised, sh, env, NoOut, d.value)
       ELSE GenResult([m1 EXCEPT !.random_state_variables = <<<<sh.self, op.new_r>>>> \o @],
                      "none", sh, Env(sh.states, sh.containers, sh.tags, rs.heap),
                      [id |-> op.out, rng |-> sh.self], d.value)

\* self.gen(op, *args, **kwargs). The seed is drawn and the shared variable
\* made before op is called; when op raises, the variable is garbage.
gen(m, env, ctors, op) ==
    LET d == randint(m.gen_seedgen)
        rs == NewRandomState(env.heap, RandomState(d.value, 0))
        sh == shared(ctors, [env EXCEPT !.heap = rs.heap],
                     Call(rs.addr, "None", "False", "None", {}))
        m1 == [m EXCEPT !.gen_seedgen = d.state]
    IN IF sh.raised # "none" THEN GenResult(m1, sh.raised, sh, env, NoOut, d.value)
       ELSE IF op.raised # "none" THEN GenResult(m1, op.raised, sh, env, NoOut, d.value)
       ELSE GenResult([m1 EXCEPT !.random_state_variables = Append(@, <<sh.self, op.new_r>>)],
                      "none", sh, Env(sh.states, sh.containers, sh.tags, rs.heap),
                      [id |-> op.out, rng |-> sh.self], d.value)

----------------------------------------------------------------------------
(* Calls on a shared variable and its clones by a caller that holds the    *)
(* objects v and r                                                         *)

RefAddr(ref) == IF ref = "v" THEN v ELSE r

Last(op, s, ref, borrow) == [op |-> op, s |-> s, ref |-> ref, borrow |-> borrow]

Wrote(how, ref) == [how |-> how, ref |-> ref]

\* The call that made a shared variable: the constructor itself ("new"),
\* clone() of the variable from, shared(), gen() or filter_update(); and
\* whether the constructor was given a value that is not None, and a
\* container
Origin(how, from, value, container) ==
    [how |-> how, from |-> from, value |-> value, container |-> container]

\* A local is bound to another object: what was written from it is no
\* longer what it names.
Rebind(w, ref) ==
    [c \in 1..Len(w) |-> IF w[c].ref = ref THEN Wrote(w[c].how, "-") ELSE w[c]]

Store(result) ==
    \E n \in {result} :
       /\ heap' = n.heap
       /\ containers' = n.containers
       /\ tags' = n.tags
       /\ v' = n.v
       /\ r' = n.r

\* What the calls on shared variables leave alone
OtherVars == <<value_borrows, constructors, outcome, mgr, hist, snapshot>>

NoStreams ==
    /\ mgr = <<>>
    /\ hist = <<>>
    /\ snapshot = NoSnapshot
    /\ outcome = NoOutcome

\* The caller makes a new object and names it v: a box holding an object
\* with data d, or a numpy RandomState; or sets v to None.
NewObjOp(kind, d) ==
    /\ kind = "none" => (d = 0 /\ v # PyNone)
    /\ LET free == FreeAddrs(heap)
           a == Lowest(free)
           b == Lowest(free \ {a})
           h1 == IF kind = "none" THEN heap
                 ELSE IF kind = "box"
                 THEN [heap EXCEPT ![a] = Cell("box", 0, b), ![b] = Cell("obj", d, PyNone)]
                 ELSE [heap EXCEPT ![a] = Cell(kind, d, PyNone)]
       IN Store(Normal(h1, containers, tags, IF kind = "none" THEN PyNone ELSE a, r))
    /\ raised' = "none"
    /\ wrote' = Rebind(wrote, "v")
    /\ last' = Last("new", 0, "v", FALSE)
    /\ UNCHANGED <<states, origin, rhow>>

NewObj == \E kind \in {"box", "rng", "none"}, d \in Data : NewObjOp(kind, d)

\* The caller changes in place the object t, which is the object it names
\* ref or is held by it: new data, or for a box another object in it.
MutateOp(ref, t, d) ==
    /\ IF heap[t].kind = "box"
       THEN /\ d # heap[heap[t].child].data
            /\ LET n == Lowest(FreeAddrs(heap))
                   h1 == [heap EXCEPT ![n] = Cell("obj", d, PyNone), ![t].child = n]
               IN Store(Normal(h1, containers, tags, v, r))
       ELSE /\ d # heap[t].data
            /\ heap' = [heap EXCEPT ![t].data = d]
            /\ UNCHANGED <<containers, tags, v, r>>
    /\ raised' = "none"
    /\ last' = Last("mutate", 0, ref, FALSE)
    /\ UNCHANGED <<states, origin, rhow, wrote>>

Mutate ==
    \E ref \in {"v", "r"} :
       \E t \in Reach(heap, RefAddr(ref)), d \in Data : MutateOp(ref, t, d)

\* r = s.get_value(borrow)
GetValueOp(s, borrow) ==
    LET c == containers[states[s].container]
        g == get_value(heap, c, borrow)
    IN /\ Store(Normal(g.heap, containers, tags, v, g.value))
       /\ rhow' = IF borrow THEN "borrow" ELSE "copy"
       /\ raised' = "none"
       /\ wrote' = Rebind(wrote, "r")
       /\ last' = Last("get_value", s, "r", borrow)
       /\ UNCHANGED <<states, origin>>

GetValue ==
    \E s \in DOMAIN states, borrow \in BOOLEAN : GetValueOp(s, borrow)

\* s.set_value(x, borrow) for x the object the caller names ref
SetValueOp(s, ref, borrow, skip) ==
    \E ci \in {states[s].container} :
     \E w \in {set_value(heap, containers[ci], RefAddr(ref), borrow, skip)} :
       /\ Store(Normal(w.heap, [containers EXCEPT ![ci] = w.container], tags, v, r))
       /\ raised' = w.raised
       /\ wrote' = IF w.raised = "none"
                   THEN [wrote EXCEPT ![ci] = Wrote(IF borrow THEN "borrow" ELSE "copy", ref)]
                   ELSE wrote
       /\ rhow' = IF w.raised = "none" /\ borrow /\ ref = "r" THEN "borrow" ELSE rhow
       /\ last' = Last("set_value", s, ref, borrow)
       /\ UNCHANGED <<states, origin>>

SetValue ==
    \E s \in DOMAIN states, ref \in {"v", "r"}, borrow \in BOOLEAN :
       \E skip \in SkipChoices(borrow) : SetValueOp(s, ref, borrow, skip)

\* s.clone()
CloneOp(s) ==
    /\ Len(states) <= MaxClones
    /\ \E n \in {clone(states, containers, tags, heap, s)} :
          /\ states' = n.states
          /\ origin' = IF n.raised = "none"
                       THEN Append(origin, Origin("clone", s, FALSE, TRUE))
                       ELSE origin
          /\ containers' = n.containers
          /\ tags' = n.tags
          /\ raised' = n.raised
    /\ last' = Last("clone", s, "-", FALSE)
    /\ UNCHANGED <<heap, v, r, rhow, wrote>>

Clone == \E s \in DOMAIN states : CloneOp(s)

\* The caller has made an object v and a shared variable of it, with
\* SharedVariable(name, type, value, strict) or with the subclass
\* RandomStateSharedVariable, under the default configuration.
InitState ==
    /\ NoStreams
    /\ \E kind \in {"box", "rng"}, d \in Data :
         \E ct \in {<<"SharedVariable", "generic">>,
                     <<"RandomStateSharedVariable", "random_state_type">>} :
            LET h0 == [a \in Addr |->
                         IF a = 1 THEN (IF kind = "box" THEN Cell("box", 0, 2)
                                        ELSE Cell(kind, d, PyNone))
                         ELSE IF a = 2 /\ kind = "box" THEN Cell("obj", d, PyNone)
                         ELSE FreeCell]
                n == SharedVariable_init(<<>>, <<>>, <<>>, h0, ct[1], "None", ct[2], 1,
                                         "False", "None", NoContainer)
            IN /\ n.raised = "none"
               /\ heap = h0
               /\ states = n.states
               /\ origin = <<Origin("new", 0, TRUE, FALSE)>>
               /\ containers = n.containers
               /\ tags = n.tags
    /\ v = 1
    /\ r = PyNone
    /\ rhow = "none"
    /\ wrote = <<Wrote("init", "v")>>
    /\ raised = "none"
    /\ last = Last("init", 1, "v", TRUE)
    /\ value_borrows = TRUE
    /\ constructors = DefaultConstructors

NextState ==
    \/ (NewObj /\ UNCHANGED OtherVars)
    \/ (Mutate /\ UNCHANGED OtherVars)
    \/ (GetValue /\ UNCHANGED OtherVars)
    \/ (SetValue /\ UNCHANGED OtherVars)
    \/ (Clone /\ UNCHANGED OtherVars)

SpecState == InitState /\ [][NextState]_vars

----------------------------------------------------------------------------
(* Calls on the registry                                                   *)

\* @shared_constructor on a constructor of the user
RegisterOp(ctor) ==
    /\ Len(constructors) < MaxCtors
    /\ constructors' = shared_constructor(constructors, ctor)
    /\ last' = Last("shared_constructor", 0, "-", FALSE)
    /\ UNCHANGED <<heap, containers, states, origin, tags, v, r, rhow, wrote, raised>>

Register == \E ctor \in UserConstructors : RegisterOp(ctor)

\* x = shared(v, **kwargs), with the default name, strict and allow_downcast.
\* The caller keeps the variable made last only.
SharedOp(kwargs) ==
    \E res \in {shared(constructors, Env(<<>>, <<>>, <<>>, heap),
                       Call(v, "None", "False", "None", kwargs))} :
     \E n \in {Normal(heap, res.containers, res.tags, v, PyNone)} :
       /\ Store(n)
       /\ states' = res.states
       /\ origin' = IF res.raised = "none"
                    THEN <<Origin("shared", 0, v # PyNone, FALSE)>>
                    ELSE <<>>
       /\ raised' = res.raised
       /\ outcome' = Outcome(res.tried, res.self,
                             IF res.args = <<>> THEN <<>> ELSE <<n.v, res.args[2]>>,
                             kwargs)
       /\ wrote' = IF res.raised = "none" THEN <<Wrote("init", "v")>> ELSE <<>>
       /\ rhow' = "none"
       /\ last' = Last("shared", res.self, "v", TRUE)

Shared == \E kwargs \in {{}, {"borrow"}} : SharedOp(kwargs)

InitRegistry ==
    /\ heap = [a \in Addr |-> FreeCell]
    /\ containers = <<>>
    /\ states = <<>>
    /\ origin = <<>>
    /\ tags = <<>>
    /\ v = PyNone
    /\ r = PyNone
    /\ rhow = "none"
    /\ wrote = <<>>
    /\ raised = "none"
    /\ last = Last("import", 0, "-", FALSE)
    /\ value_borrows = TRUE
    /\ constructors = DefaultConstructors
    /\ mgr = <<>>
    /\ hist = <<>>
    /\ snapshot = NoSnapshot
    /\ outcome = NoOutcome

NextRegistry ==
    \/ (NewObj /\ UNCHANGED OtherVars)
    \/ (Register /\ UNCHANGED <<value_borrows, outcome, mgr, hist, snapshot>>)
    \/ (Shared /\ UNCHANGED <<value_borrows, constructors, mgr, hist, snapshot>>)

SpecRegistry == InitRegistry /\ [][NextRegistry]_vars

----------------------------------------------------------------------------
(* Calls that make shared variables, and calls on their tags               *)

\* x = cls(name, type, value, strict, container=c): value is the caller's v
\* or None, c is None or the container of the variable from
NewVarOp(ct, give, from, strict) ==
    /\ Len(states) < MaxVars
    /\ give => v # PyNone
    /\ \E c \in {IF from = 0 THEN NoContainer ELSE states[from].container} :
       \E n \in {SharedVariable_init(states, containers, tags, heap, ct[1], "None", ct[2],
                                      IF give THEN v ELSE PyNone, strict, "None", c)} :
          /\ Store(Normal(heap, n.containers, n.tags, v, r))
          /\ states' = n.states
          /\ raised' = n.raised
          /\ origin' = IF n.raised = "none"
                       THEN Append(origin, Origin("new", from, give, from # 0))
                       ELSE origin
          /\ last' = [op |-> "SharedVariable", s |-> n.self, ref |-> IF give THEN "v" ELSE "-",
                      borrow |-> TRUE, container |-> c, strict |-> strict]
    /\ UNCHANGED <<rhow, wrote>>

NewVar ==
    \E ct \in {<<"SharedVariable", "generic">>,
                <<"RandomStateSharedVariable", "random_state_type">>} :
       \E give \in BOOLEAN, from \in 0..Len(states) :
          \E strict \in (IF from = 0 THEN {"False"} ELSE {"None", "False"}) :
             NewVarOp(ct, give, from, strict)

\* x = s.clone()
CloneVarOp(s) ==
    /\ Len(states) < MaxVars
    /\ \E n \in {clone(states, containers, tags, heap, s)} :
          /\ states' = n.states
          /\ containers' = n.containers
          /\ tags' = n.tags
          /\ raised' = n.raised
          /\ origin' = IF n.raised = "none"
                       THEN Append(origin, Origin("clone", s, FALSE, TRUE))
                       ELSE origin
    /\ last' = Last("clone", s, "-", FALSE)
    /\ UNCHANGED <<heap, v, r, rhow, wrote>>

CloneVar == \E s \in DOMAIN states : CloneVarOp(s)

\* x = s.filter_update(u) for u another shared variable, or the caller's v
FilterUpdateOp(s, update) ==
    /\ update.is_variable \/ Len(states) < MaxVars
    /\ \E n \in {filter_update(constructors, Env(states, containers, tags, heap), update)} :
          /\ Store(Normal(heap, n.containers, n.tags, v, r))
          /\ states' = n.states
          /\ raised' = n.raised
          /\ origin' = IF n.raised = "none" /\ ~update.is_variable
                       THEN Append(origin, Origin("filter_update", 0, v # PyNone, FALSE))
                       ELSE origin
          /\ outcome' = IF update.is_variable THEN outcome
                        ELSE Outcome(n.tried, n.self, <<>>, {})
          /\ last' = Last("filter_update", n.self, IF update.is_variable THEN "-" ELSE "v",
                          TRUE)
    /\ UNCHANGED <<rhow, wrote>>

\* filter_update reads nothing of self: the receiver is the variable made last
FilterUpdate ==
    \E s \in {Len(states)} \ {0} :
       \/ \E u \in DOMAIN states : FilterUpdateOp(s, Update(TRUE, u, PyNone))
       \/ FilterUpdateOp(s, Update(FALSE, 0, v))

\* s.tag.a = v: an entry is added to the tag, or replaced
TagSetOp(s) ==
    /\ v # PyNone
    /\ tags[states[s].tag].a # v
    /\ Store(Normal(heap, containers, [tags EXCEPT ![states[s].tag].a = v], v, r))
    /\ raised' = "none"
    /\ last' = Last("tag_set", s, "v", FALSE)
    /\ UNCHANGED <<states, origin, rhow, wrote>>

TagSet == \E s \in DOMAIN states : TagSetOp(s)

\* The object that s.tag.a is, is changed in place: new data, or for a box
\* another object in it
TagMutateOp(s, d) ==
    /\ tags[states[s].tag].a # PyNone
    /\ \E t \in {tags[states[s].tag].a} :
          IF heap[t].kind = "box"
          THEN /\ d # heap[heap[t].child].data
               /\ \E n \in {Lowest(FreeAddrs(heap))} :
                     Store(Normal([heap EXCEPT ![n] = Cell("obj", d, PyNone), ![t].child = n],
                                  containers, tags, v, r))
          ELSE /\ d # heap[t].data
               /\ heap' = [heap EXCEPT ![t].data = d]
               /\ UNCHANGED <<containers, tags, v, r>>
    /\ raised' = "none"
    /\ last' = Last("tag_mutate", s, "-", FALSE)
    /\ UNCHANGED <<states, origin, rhow, wrote>>

TagMutate == \E s \in DOMAIN states, d \in Data : TagMutateOp(s, d)

\* Both modules are imported and the caller has made no variable yet
InitVars ==
    /\ NoStreams
    /\ heap = [a \in Addr |-> FreeCell]
    /\ containers = <<>>
    /\ states = <<>>
    /\ origin = <<>>
    /\ tags = <<>>
    /\ v = PyNone
    /\ r = PyNone
    /\ rhow = "none"
    /\ wrote = <<>>
    /\ raised = "none"
    /\ last = Last("import", 0, "-", FALSE)
    /\ value_borrows = TRUE
    /\ constructors = DefaultConstructors

\* The heap has room for n more objects
HasRoom(n) == Cardinality(FreeAddrs(heap)) >= n

\* The caller makes a new object with data 0 and names it v, or sets v to
\* None
NewPlainObj == \E kind \in {"box", "rng", "none"} : NewObjOp(kind, 0)

NextVars ==
    \/ (HasRoom(2) /\ NewPlainObj /\ UNCHANGED OtherVars)
    \/ (NewVar /\ UNCHANGED OtherVars)
    \/ (CloneVar /\ UNCHANGED OtherVars)
    \/ (FilterUpdate /\ UNCHANGED <<value_borrows, constructors, mgr, hist, snapshot>>)

SpecVars == InitVars /\ [][NextVars]_vars

\* A shared variable and its clones, and the entries of their tags
NextTags ==
    \/ (HasRoom(2) /\ NewPlainObj /\ UNCHANGED OtherVars)
    \/ (Clone /\ UNCHANGED OtherVars)
    \/ (TagSet /\ UNCHANGED OtherVars)
    \/ (HasRoom(1) /\ TagMutate /\ UNCHANGED OtherVars)

SpecTags == InitState /\ [][NextTags]_vars

----------------------------------------------------------------------------
(* Calls on a RandomStreams instance                                       *)

\* What is known of the calls on an instance: the state gen_seedgen started
\* in, the calls in order, the seed every gen call drew, what every gen call
\* that returned made, every seed call, and the graph variables made so far
NoHistory(given, start) ==
    [given |-> given, start |-> start, calls |-> <<>>, draws |-> <<>>, made |-> <<>>, seeds |-> <<>>,
     nodes |-> 0, failed |-> 0]

\* m.gen(op): op returns or raises
GenOp(m, ok) ==
    /\ Len(hist[m].calls) < MaxCalls
    /\ \E k \in {hist[m].nodes} :
       \E op \in {IF ok THEN OpReturn("none", k + 1, k + 2) ELSE OpReturn("Exception", 0, 0)} :
       \E g \in {gen(mgr[m], Env(states, containers, tags, heap), constructors, op)} :
          /\ Store(Normal(g.heap, g.containers, g.tags, PyNone, PyNone))
          /\ states' = g.states
          /\ origin' = IF g.raised = "none"
                       THEN Append(origin, Origin("gen", 0, TRUE, FALSE))
                       ELSE origin
          /\ mgr' = [mgr EXCEPT ![m] = g.mgr]
          /\ raised' = g.raised
          /\ outcome' = Outcome(g.tried, g.self, <<>>, {})
          /\ hist' = [hist EXCEPT
                         ![m].calls = Append(@, [op |-> "gen", arg |-> 0, ok |-> g.raised = "none"]),
                         ![m].draws = Append(@, g.seed),
                         ![m].made = IF g.raised = "none"
                                     THEN Append(@, [out |-> g.out, new_r |-> op.new_r,
                                                     seed |-> g.seed])
                                     ELSE @,
                         ![m].nodes = IF ok THEN k + 2 ELSE k,
                         ![m].failed = IF g.raised = "none" THEN @ ELSE @ + 1]
           /\ snapshot' = IF snapshot.alias /\ snapshot.of = m
                         THEN [snapshot EXCEPT !.items = g.mgr.random_state_variables]
                         ELSE snapshot
          /\ last' = Last("gen", m, "-", FALSE)
    /\ UNCHANGED <<rhow, wrote, value_borrows, constructors>>

Gen == \E m \in DOMAIN mgr, ok \in BOOLEAN : GenOp(m, ok)

\* m.seed(arg)
SeedOp(m, arg, e, skip) ==
    /\ Len(hist[m].calls) < MaxCalls
    /\ \E g \in {seed(mgr[m], Env(states, containers, tags, heap), arg, e,
                        value_borrows, skip)} :
          /\ Store(Normal(g.heap, g.containers, g.tags, PyNone, PyNone))
          /\ mgr' = [mgr EXCEPT ![m] = g.mgr]
          /\ raised' = g.raised
          /\ hist' = [hist EXCEPT
                         ![m].calls = Append(@, [op |-> "seed", arg |-> arg, ok |-> g.raised = "none"]),
                         ![m].seeds = Append(@, [arg |-> arg, eff |-> g.eff,
                                                 n |-> Len(mgr[m].random_state_variables),
                                                 assigned |-> g.assigned])]
          /\ last' = Last("seed", m, "-", value_borrows)
    /\ UNCHANGED <<states, origin, rhow, wrote, value_borrows, constructors, outcome,
                   snapshot>>

Seed ==
    \E m \in DOMAIN mgr, arg \in Seeds \cup {SeedNone} :
       \E e \in (IF EffectiveSeed(mgr[m], arg) = SeedNone THEN Entropy ELSE {0}) :
          \E skip \in SkipChoices(value_borrows) : SeedOp(m, arg, e, skip)

\* m.updates()
UpdatesOp(m) ==
    /\ snapshot' = Snapshot(updates(mgr[m]), m, 0)
    /\ last' = Last("updates", m, "-", FALSE)
    /\ raised' = "none"
    /\ UNCHANGED <<heap, containers, states, origin, tags, v, r, rhow, wrote, value_borrows,
                   constructors, outcome, mgr, hist>>

Updates == \E m \in DOMAIN mgr : UpdatesOp(m)

\* The caller changes the list that updates() returned: it appends a pair
\* of its own, removes the first pair, or reverses the list. A list that is
\* the list of the manager changes for the manager too.
EditList(l, how) ==
    CASE how = "append" -> Append(l, <<0, 0>>)
      [] how = "remove" -> Tail(l)
      [] how = "reverse" -> [i \in 1..Len(l) |-> l[Len(l) + 1 - i]]

EditSnapshotOp(how) ==
    /\ snapshot.of # 0
    /\ snapshot.edits < MaxEdits
    /\ how = "remove" => snapshot.items # <<>>
    /\ how = "reverse" => Len(snapshot.items) >= 2
    /\ \E l \in {EditList(snapshot.items, how)} :
          /\ snapshot' = [snapshot EXCEPT !.items = l, !.edits = @ + 1]
          /\ mgr' = IF snapshot.alias
                    THEN [mgr EXCEPT ![snapshot.of].random_state_variables = l]
                    ELSE mgr
    /\ last' = Last("edit_list", snapshot.of, "-", FALSE)
    /\ raised' = "none"
    /\ UNCHANGED <<heap, containers, states, origin, tags, v, r, rhow, wrote, value_borrows,
                   constructors, outcome, hist>>

EditSnapshot == \E how \in {"append", "remove", "reverse"} : EditSnapshotOp(how)

\* streams = RandomStreams(seed) after the import of both modules
InitStreams ==
    /\ heap = [a \in Addr |-> FreeCell]
    /\ containers = <<>>
    /\ states = <<>>
    /\ origin = <<>>
    /\ tags = <<>>
    /\ v = PyNone
    /\ r = PyNone
    /\ rhow = "none"
    /\ wrote = <<>>
    /\ raised = "none"
    /\ last = Last("init", 1, "-", FALSE)
    /\ value_borrows = TRUE
    /\ constructors = DefaultConstructors
    /\ outcome = NoOutcome
    /\ snapshot = NoSnapshot
    /\ \E sd \in Seeds \cup {SeedNone} :
         \E e \in (IF sd = SeedNone THEN Entropy ELSE {0}) :
            /\ mgr = <<RandomStreams_init(sd, e)>>
            /\ hist = <<NoHistory(sd, RandomState(sd, e))>>

NextStreams ==
    \/ Gen
    \/ Seed
    \/ Updates

SpecStreams == InitStreams /\ [][NextStreams]_vars

\* Calls on one manager and on the lists that updates() returned
NextSnapshot ==
    \/ (Len(hist[1].calls) < MaxSnapCalls /\ Gen)
    \/ (Len(hist[1].calls) < MaxSnapCalls /\ Seed)
    \/ Updates
    \/ EditSnapshot

SpecSnapshot == InitStreams /\ [][NextSnapshot]_vars

\* a = RandomStreams(seed_a); b = RandomStreams(seed_b)
InitManagers ==
    /\ heap = [a \in Addr |-> FreeCell]
    /\ containers = <<>>
    /\ states = <<>>
    /\ origin = <<>>
    /\ tags = <<>>
    /\ v = PyNone
    /\ r = PyNone
    /\ rhow = "none"
    /\ wrote = <<>>
    /\ raised = "none"
    /\ last = Last("init", 2, "-", FALSE)
    /\ value_borrows = TRUE
    /\ constructors = DefaultConstructors
    /\ outcome = NoOutcome
    /\ snapshot = NoSnapshot
    /\ \E sa, sb \in Seeds \cup {SeedNone} :
         \E ea \in (IF sa = SeedNone THEN Entropy ELSE {0}),
            eb \in (IF sb = SeedNone THEN Entropy ELSE {0}) :
            /\ mgr = <<RandomStreams_init(sa, ea), RandomStreams_init(sb, eb)>>
            /\ hist = <<NoHistory(sa, RandomState(sa, ea)), NoHistory(sb, RandomState(sb, eb))>>

\* The calls made on the two managers together
PairCalls == Len(hist[1].calls) + Len(hist[2].calls)

NextManagers ==
    \/ (PairCalls < MaxPairCalls /\ Gen)
    \/ (PairCalls < MaxPairCalls /\ Seed)

SpecManagers == InitManagers /\ [][NextManagers]_vars

----------------------------------------------------------------------------
(* Properties of get_value, set_value and clone                            *)

\* The value s.get_value() returns, whatever object holds it
ValueOf(h, cs, sts, s) == DeepVal(h, Container_read(cs[sts[s].container]))

StorageOf(cs, sts, s) == Container_read(cs[sts[s].container])

CallerReach(h, vv, rr) == Reach(h, vv) \cup Reach(h, rr)

Unchanged(s) == ValueOf(heap', containers', states', s) = ValueOf(heap, containers, states, s)

\* C1. Copy isolation on read: the object get_value(borrow=False) returns has
\* the container's value and shares no object with it, and when the caller
\* then changes that object in place, what get_value returns, from the
\* variable or from any clone of it, is what it was before the change.
C1_CopyIsolationOnRead ==
    [][/\ (last'.op = "get_value" /\ ~last'.borrow)
            => /\ DeepVal(heap', r') = ValueOf(heap, containers, states, last'.s)
               /\ \A s \in DOMAIN states :
                     /\ Reach(heap', r') \cap Reach(heap', StorageOf(containers', states', s)) = {}
                     /\ Unchanged(s)
       /\ (last'.op = "mutate" /\ last'.ref = "r" /\ rhow = "copy")
            => \A s \in DOMAIN states : Unchanged(s)
      ]_vars

\* The caller has changed r, a copy it got from get_value; the variable, which
\* has a clone, still holds the object it was made with, and not r's value
C1_Witness ==
    /\ last = Last("mutate", 0, "r", FALSE)
    /\ rhow = "copy"
    /\ Len(states) = 2
    /\ wrote[1].how = "init"
    /\ DeepVal(heap, r) # ValueOf(heap, containers, states, 2)

\* C2. Copy isolation on write: after s.set_value(x, borrow=False) the
\* container holds an object with x's value that shares no object with what
\* the caller holds, and when the caller later changes x in place, what
\* s.get_value() returns does not change.
C2_CopyIsolationOnWrite ==
    [][/\ (last'.op = "set_value" /\ ~last'.borrow /\ raised' = "none")
            => /\ ValueOf(heap', containers', states', last'.s)
                     = DeepVal(heap, RefAddr(last'.ref))
               /\ Reach(heap', StorageOf(containers', states', last'.s))
                     \cap CallerReach(heap', v', r') = {}
       /\ last'.op = "mutate"
            => \A s \in DOMAIN states :
                  wrote[states[s].container] = Wrote("copy", last'.ref) => Unchanged(s)
      ]_vars

\* The caller has changed v after v was copied into the container, which
\* holds another value than v now
C2_Witness ==
    /\ last = Last("mutate", 0, "v", FALSE)
    /\ \E s \in DOMAIN states :
          /\ wrote[states[s].container] = Wrote("copy", "v")
          /\ ValueOf(heap, containers, states, s) # DeepVal(heap, v)

\* C3. Borrow aliasing: after s.set_value(x, borrow=True) has returned, the
\* container holds the object x itself, s.get_value(borrow=True) returns the
\* object the container holds, and a change the caller makes to x in place
\* is a change of what s.get_value(borrow=True) returns.
C3_BorrowAliasing ==
    [][/\ (last'.op = "set_value" /\ last'.borrow /\ raised' = "none")
            => StorageOf(containers', states', last'.s) = (IF last'.ref = "v" THEN v' ELSE r')
       /\ (last'.op = "get_value" /\ last'.borrow)
            => r' = StorageOf(containers', states', last'.s)
       /\ last'.op = "mutate"
            => \A s \in DOMAIN states :
                  wrote[states[s].container] = Wrote("borrow", last'.ref)
                  => /\ StorageOf(containers', states', s)
                          = (IF last'.ref = "v" THEN v' ELSE r')
                     /\ ~Unchanged(s)
      ]_vars

\* The caller has changed v after set_value(v, borrow=True), and the object
\* it got from get_value(borrow=True) before is v
C3_Witness ==
    /\ last = Last("mutate", 0, "v", FALSE)
    /\ rhow = "borrow"
    /\ r = v
    /\ \E s \in DOMAIN states :
          /\ wrote[states[s].container] = Wrote("borrow", "v")
          /\ StorageOf(containers, states, s) = v

Rejects(c, h, a) == Type_filter(c.type, h, a, c.strict, c.allow_downcast).raised # "none"

\* C4. Filter enforcement: s.set_value(x, borrow=False) with a value the
\* type's filter rejects raises TypeError, and the container holds the same
\* object with the same value as before the call.
C4_FilterEnforcement ==
    [][(/\ last'.op = "set_value"
        /\ ~last'.borrow
        /\ Rejects(containers[states[last'.s].container], heap, RefAddr(last'.ref)))
       => /\ raised' = "TypeError"
          /\ containers' = containers
          /\ Unchanged(last'.s)
      ]_vars

\* set_value(v, borrow=False) of a value that is no RandomState has raised on
\* a variable of the random state type, which holds a RandomState
C4_Witness ==
    /\ last = Last("set_value", 1, "v", FALSE)
    /\ raised = "TypeError"
    /\ containers[1].type = "random_state_type"
    /\ KindOf(heap, containers[1].storage) = "rng"
    /\ KindOf(heap, v) = "box"

\* s2 is s1.clone(), or a clone() of it, and so on
RECURSIVE CloneOf(_, _)
CloneOf(s2, s1) ==
    /\ origin[s2].how = "clone"
    /\ (origin[s2].from = s1 \/ CloneOf(origin[s2].from, s1))

\* C11: s2 = s1.clone() is another variable than s1, of the same class and
\* the same type, on the same Container; after a set_value on either of them
\* (borrow or not) get_value(borrow=True) on both returns the same object,
\* which with borrow=True is the object that was written.
C11_CloneAliasing ==
    [][/\ \A s1, s2 \in DOMAIN states' :
             CloneOf(s2, s1)' =>
                /\ s2 # s1
                /\ states'[s2].cls = states'[s1].cls
                /\ states'[s2].type = states'[s1].type
                /\ states'[s2].container = states'[s1].container
       /\ (last'.op = "set_value" /\ raised' = "none") =>
             \A s1, s2 \in DOMAIN states' :
                (CloneOf(s2, s1)' /\ last'.s \in {s1, s2}) =>
                   /\ get_value(heap', containers'[states'[s1].container], TRUE).value
                        = StorageOf(containers', states', last'.s)
                   /\ get_value(heap', containers'[states'[s2].container], TRUE).value
                        = StorageOf(containers', states', last'.s)
                   /\ last'.borrow =>
                         get_value(heap', containers'[states'[s2].container], TRUE).value
                            = (IF last'.ref = "v" THEN v' ELSE r')
      ]_vars

\* A clone was written with borrow=True and the variable it was cloned from
\* reads the object written
C11_Witness ==
    /\ last = Last("set_value", 2, "v", TRUE)
    /\ raised = "none"
    /\ CloneOf(2, 1)
    /\ v # PyNone
    /\ get_value(heap, containers[states[1].container], TRUE).value = v
    /\ wrote[1].how = "borrow"

\* The call before was the constructor, given a value that is not None (the
\* caller's v) or not, and a container or not
WasNew(give, container) ==
    /\ last.op = "SharedVariable"
    /\ (last.ref = "v") = give
    /\ (last.container # NoContainer) = container

\* C12 as claimed: the constructor raises when it is given both a value and
\* a container, and every shared variable there is was made with exactly one
\* of the two.
C12_ExactlyOne ==
    /\ WasNew(TRUE, TRUE) => (raised = "TypeError" /\ last.s = 0)
    /\ \A s \in DOMAIN states : origin[s].value # origin[s].container

\* C12 amended: the constructor raises when it is given a container together
\* with a value or with a strict that is not None, and no shared variable was
\* made with both a value and a container; one made with neither (value None
\* and no container) has a new Container that holds None, which the
\* constructor makes whenever the type's filter takes None.
C12_NotBoth ==
    /\ (last.op = "SharedVariable" /\ last.container # NoContainer
           /\ (last.ref = "v" \/ last.strict # "None"))
          => (raised = "TypeError" /\ last.s = 0)
    /\ (last.op = "SharedVariable" /\ last.container # NoContainer
           /\ last.ref = "-" /\ last.strict = "None")
          => (raised = "none" /\ states[last.s].container = last.container)
    /\ \A s \in DOMAIN states :
          /\ ~(origin[s].value /\ origin[s].container)
          /\ (~origin[s].value /\ ~origin[s].container) =>
                /\ Container_read(containers[states[s].container]) = PyNone
                /\ \A s1 \in 1..(s - 1) : states[s1].container # states[s].container

\* The constructor was given neither and made a variable
C12_Witness ==
    /\ WasNew(FALSE, FALSE)
    /\ raised = "none"
    /\ ~origin[last.s].value /\ ~origin[last.s].container
    /\ origin[last.s].how = "new"
    /\ v # PyNone

\* The variable that s comes from by clone() calls and by constructor calls
\* that were given the container of another variable
RECURSIVE FirstOf(_)
FirstOf(s) == IF origin[s].from = 0 THEN s ELSE FirstOf(origin[s].from)

----------------------------------------------------------------------------
(* Properties of shared()                                                  *)

\* What a call of ctor on the caller's v with the keywords of the last
\* shared() raises
RaisesOn(ctor) ==
    CallCtor(ctor, Env(<<>>, <<>>, <<>>, heap),
             Call(v, "None", "False", "None", outcome.kwargs)).raised

\* The class of the variable that ctor makes
ProductOf(ctor) ==
    CASE ctor = "generic_constructor" -> "SharedVariable"
      [] ctor = "randomstate_constructor" -> "RandomStateSharedVariable"
      [] OTHER -> ctor

\* C5: shared() calls the constructors in the reverse of the order of their
\* registration, starting from the one registered last; each one it passes
\* over raised TypeError; the first one that does not raise TypeError ends
\* the search, so a constructor registered before it is not called, and when
\* that one returns a variable, shared() returns this variable.
C5_RegistryOrder ==
    last.op = "shared" =>
       LET n == Len(constructors)
           k == Len(outcome.tried)
       IN /\ k <= n
          /\ \A i \in 1..k : outcome.tried[i] = constructors[n + 1 - i]
          /\ \A i \in 1..(k - 1) : RaisesOn(outcome.tried[i]) = "TypeError"
          /\ raised = "none" =>
                /\ k >= 1
                /\ RaisesOn(outcome.tried[k]) = "none"
                /\ outcome.self \in DOMAIN states
                /\ states[outcome.self].cls = ProductOf(outcome.tried[k])
          /\ (k < n /\ k >= 1) => RaisesOn(outcome.tried[k]) # "TypeError"

\* A, B, C registered in that order, only A takes v: C, then B, then A were
\* called, and the variable is A's.
C5_Witness ==
    /\ last.op = "shared"
    /\ constructors = DefaultConstructors \o <<"A", "B", "C">>
    /\ outcome.tried = <<"C", "B", "A">>
    /\ raised = "none"
    /\ states[outcome.self].cls = "A"

\* C13: when every registered constructor raises TypeError for the value
\* with the keywords given, shared() raises TypeError with the value and the
\* keywords as arguments, returns no variable and leaves shared.constructors
\* as it was.
C13_NoConstructorFound ==
    [][last'.op = "shared" =>
          /\ constructors' = constructors
          /\ ((\A i \in DOMAIN constructors : RaisesOn(constructors[i]) = "TypeError")
                => /\ raised = "TypeError"
                   /\ outcome.args = <<v, outcome.kwargs>>
                   /\ outcome.self = 0
                   /\ states = <<>>
                   /\ Len(outcome.tried) = Len(constructors))'
      ]_vars

\* The keyword borrow makes generic_constructor inapplicable, and B, which
\* takes it, raises TypeError for a box
C13_Witness ==
    /\ last.op = "shared"
    /\ raised = "TypeError"
    /\ outcome.kwargs = {"borrow"}
    /\ KindOf(heap, v) = "box"
    /\ outcome.args = <<v, {"borrow"}>>
    /\ outcome.tried = <<"B", "randomstate_constructor", "generic_constructor">>
    /\ states = <<>>

\* The variable that shared() returned has a Container of its own that can
\* be written and holds the value
FreshContainer ==
    /\ outcome.self \in DOMAIN states
    /\ LET c == containers[states[outcome.self].container]
       IN /\ c.owner = outcome.self
          /\ ~c.readonly
          /\ Container_read(c) = v
          /\ \A s \in DOMAIN states :
                s # outcome.self => states[s].container # states[outcome.self].container

\* C15 as claimed: generic_constructor is registered first; shared(value)
\* without other keywords returns a variable for every value, whatever
\* constructors were registered after it.
C15_FallbackGuarantee ==
    (last.op = "shared" /\ outcome.kwargs = {} /\ constructors[1] = "generic_constructor")
       => (raised = "none" /\ FreshContainer)

\* C15 amended: generic_constructor is registered first; shared(value)
\* without other keywords returns a variable for every value when each
\* constructor registered after it returns a variable or raises TypeError
\* for the value; an exception of another class ends shared() with this
\* exception. When the others all raise TypeError the variable is the one of
\* generic_constructor, on a new Container that can be written and holds the
\* value.
C15_FallbackAmongTypeErrors ==
    (last.op = "shared" /\ outcome.kwargs = {} /\ constructors[1] = "generic_constructor")
       => /\ (\A i \in DOMAIN constructors : RaisesOn(constructors[i]) \in {"none", "TypeError"})
                => (raised = "none" /\ FreshContainer)
          /\ (\A i \in 2..Len(constructors) : RaisesOn(constructors[i]) = "TypeError")
                => /\ raised = "none"
                   /\ FreshContainer
                   /\ states[outcome.self].cls = "SharedVariable"
                   /\ outcome.tried[Len(outcome.tried)] = "generic_constructor"
          /\ raised \notin {"none", "TypeError"}
                => /\ RaisesOn(outcome.tried[Len(outcome.tried)]) = raised
                   /\ states = <<>>

\* A and B were registered and both raise TypeError for None: the variable
\* is the one of generic_constructor
C15_Witness ==
    /\ last.op = "shared"
    /\ outcome.kwargs = {}
    /\ constructors = DefaultConstructors \o <<"A", "B">>
    /\ v = PyNone
    /\ raised = "none"
    /\ outcome.tried = <<"B", "A", "randomstate_constructor", "generic_constructor">>
    /\ FreshContainer
    /\ states[outcome.self].cls = "SharedVariable"

----------------------------------------------------------------------------
(* Properties of RandomStreams                                             *)

Pairs(m) == mgr[m].random_state_variables

\* The RandomState object that the i-th stream of m holds
StreamValue(m, i) == heap[Container_read(containers[states[Pairs(m)[i][1]].container])]

LastSeedCall(m) == hist[m].seeds[Len(hist[m].seeds)]

\* C6: with the default registry, the shared variable that a call of gen
\* makes is made by randomstate_constructor, the constructor tried first: it
\* is a RandomStateSharedVariable of type random_state_type.
C6_GeneratorDispatch ==
    /\ (last.op = "gen" /\ raised = "none") =>
           outcome.tried = <<"randomstate_constructor">>
    /\ \A m \in DOMAIN mgr : \A k \in DOMAIN Pairs(m) :
          /\ states[Pairs(m)[k][1]].cls = "RandomStateSharedVariable"
          /\ states[Pairs(m)[k][1]].type = "random_state_type"

\* C7: the instance was made with the integer seed s and each of its gen
\* calls made its stream; after seed(s) the i-th stream holds a generator
\* made from the seed that the i-th gen call drew for the stream it made.
C7_ReseedAgainstConstruction ==
    (last.op = "seed" /\ raised = "none") =>
       LET m == last.s
           h == hist[m]
           sc == LastSeedCall(m)
       IN (/\ mgr[m].default_instance_seed \in Seeds
           /\ sc.eff = mgr[m].default_instance_seed
           /\ h.failed = 0)
          => /\ Len(sc.assigned) = Len(h.made)
             /\ \A i \in DOMAIN Pairs(m) :
                   /\ sc.assigned[i] = h.made[i].seed
                   /\ StreamValue(m, i) = Cell("rng", RandomState(h.made[i].seed, 0), PyNone)

C7_Witness ==
    /\ last.op = "seed"
    /\ raised = "none"
    /\ mgr[1].default_instance_seed = 2
    /\ LastSeedCall(1).arg = 2
    /\ hist[1].failed = 0
    /\ Len(Pairs(1)) = 3
    /\ LastSeedCall(1).assigned = <<hist[1].made[1].seed, hist[1].made[2].seed,
                                    hist[1].made[3].seed>>
    /\ hist[1].made[1].seed # hist[1].made[2].seed
    /\ Len(hist[1].seeds) = 2
    /\ hist[1].seeds[1].eff = 1

\* Two seed calls on m with the same argument and the same streams
SameSeedCalls(m, i, j) ==
    /\ i < j
    /\ hist[m].seeds[i].arg = hist[m].seeds[j].arg
    /\ hist[m].seeds[i].n = hist[m].seeds[j].n

RestartScenario(m) ==
    /\ mgr[m].default_instance_seed \in Seeds
    /\ Len(hist[m].calls) >= 5
    /\ \A i \in {1, 2, 4, 5} : hist[m].calls[i].op = "gen" /\ hist[m].calls[i].ok
    /\ hist[m].calls[3].op = "seed"
    /\ hist[m].calls[3].arg = mgr[m].default_instance_seed

\* C9 as claimed: after two gen calls, seed(s) and two more gen calls, the
\* third gen call drew the seed the first one drew and the fourth the seed
\* the second one drew.
C9_SeedDrawsRestart ==
    \A m \in DOMAIN mgr :
       RestartScenario(m) => /\ hist[m].draws[3] = hist[m].draws[1]
                             /\ hist[m].draws[4] = hist[m].draws[2]

\* C9 amended: seed() draws from a generator of its own and leaves
\* gen_seedgen where it is; the k-th gen call draws the k-th number of the
\* generator made at construction, whatever seed calls came before it.
C9_SeedDrawsContinue ==
    \A m \in DOMAIN mgr :
       /\ \A k \in DOMAIN hist[m].draws : hist[m].draws[k] = DrawN(hist[m].start, k)
       /\ mgr[m].gen_seedgen = StateN(hist[m].start, Len(hist[m].draws))

C9_Witness ==
    /\ RestartScenario(1)
    /\ Len(hist[1].calls) = 5
    /\ hist[1].draws[3] = DrawN(hist[1].start, 3)
    /\ hist[1].draws[4] = DrawN(hist[1].start, 4)
    /\ hist[1].draws[3] # hist[1].draws[1]
    /\ hist[1].draws[4] # hist[1].draws[2]

\* The gen calls of m that returned, among its calls
RECURSIVE Returned_gens(_)
Returned_gens(calls) ==
    IF calls = <<>> THEN 0
    ELSE (IF Head(calls).op = "gen" /\ Head(calls).ok THEN 1 ELSE 0) + Returned_gens(Tail(calls))

\* C10: after n gen calls that returned, among any seed and updates calls,
\* the instance has n pairs and updates() returns them: the k-th pair is the
\* shared variable attached as rng to the output of the k-th such call, with
\* the first variable that op returned in this call.
C10_UpdatesCompleteness ==
    \A m \in DOMAIN mgr :
       /\ Len(Pairs(m)) = Returned_gens(hist[m].calls)
       /\ Len(hist[m].made) = Returned_gens(hist[m].calls)
       /\ \A k \in DOMAIN Pairs(m) :
             Pairs(m)[k] = <<hist[m].made[k].out.rng, hist[m].made[k].new_r>>
       /\ (last.op = "updates" /\ last.s = m) => snapshot.items = Pairs(m)

C10_Witness ==
    /\ last.op = "updates"
    /\ Len(snapshot.items) = 3
    /\ hist[1].failed = 1
    /\ Len(hist[1].seeds) = 1
    /\ snapshot.items = <<<<hist[1].made[1].out.rng, hist[1].made[1].new_r>>,
                    <<hist[1].made[2].out.rng, hist[1].made[2].new_r>>,
                    <<hist[1].made[3].out.rng, hist[1].made[3].new_r>>>>
    /\ hist[1].calls[1].op = "gen" /\ ~hist[1].calls[1].ok

\* C14 as claimed: when op raises in gen(op), the manager is as it was before
\* the call: random_state_variables and the state of gen_seedgen are
\* unchanged, so the next gen draws the seed that the failed call drew.
C14_AllOrNothingGen ==
    [][(last'.op = "gen" /\ raised' = "Exception")
          => \A m \in {last'.s} :
                /\ mgr'[m].random_state_variables = mgr[m].random_state_variables
                /\ mgr'[m].gen_seedgen = mgr[m].gen_seedgen
                /\ randint(mgr'[m].gen_seedgen).value = hist'[m].draws[Len(hist'[m].draws)]
      ]_vars

\* A container without the value it holds
Shell(c) == [c EXCEPT !.storage = PyNone]

\* C16: seed(), whatever its argument, changes nothing but the values in the
\* containers of the stream variables: random_state_variables keeps its
\* length and order, every variable is the same object on the same
\* Container, and default_instance_seed is the seed given at construction,
\* which a seed() without argument uses.
C16_SeedFrame ==
    [][last'.op = "seed"
          => \A m \in {last'.s} :
                /\ mgr' = mgr
                /\ states' = states
                /\ tags' = tags
                /\ Len(containers') = Len(containers)
                /\ \A c \in DOMAIN containers :
                      /\ Shell(containers'[c]) = Shell(containers[c])
                      /\ (\A p \in DOMAIN Pairs(m) : states[Pairs(m)[p][1]].container # c)
                           => containers'[c] = containers[c]
                /\ mgr'[m].default_instance_seed = hist[m].given
                /\ LastSeedCall(m)'.arg = SeedNone => LastSeedCall(m)'.eff = hist[m].given
      ]_vars

\* seed(2) and then seed() on the manager made with seed 1 and with two
\* streams: the second call uses 1
C16_Witness ==
    /\ last.op = "seed"
    /\ raised = "none"
    /\ hist[1].given = 1
    /\ Len(Pairs(1)) = 2
    /\ Len(hist[1].seeds) = 2
    /\ hist[1].seeds[1].arg = 2
    /\ hist[1].seeds[1].n = 2
    /\ hist[1].seeds[2].arg = SeedNone
    /\ hist[1].seeds[2].eff = 1
    /\ hist[1].seeds[2].assigned # hist[1].seeds[1].assigned
    /\ hist[1].calls[Len(hist[1].calls) - 1].op = "seed"

\* C17: whatever gen, seed and updates calls are made, and however the
\* caller changes the lists that updates() returned, random_state_variables
\* of a manager changes in one way only: gen appends one pair at its end, so
\* what it was before is a prefix of what it is after; and gen does not
\* change a list that updates() returned before.
C17_AppendOnlyPairs ==
    [][/\ \A m \in DOMAIN mgr :
             \/ Pairs(m)' = Pairs(m)
             \/ /\ last'.op = "gen" /\ last'.s = m /\ raised' = "none"
                /\ Len(Pairs(m)') = Len(Pairs(m)) + 1
                /\ SubSeq(Pairs(m)', 1, Len(Pairs(m))) = Pairs(m)
       /\ last'.op = "gen" => snapshot' = snapshot
       /\ last'.op \in {"seed", "updates", "edit_list"} => mgr' = mgr
      ]_vars

\* gen, updates, the caller appends a pair to the list it got, gen: the
\* manager has its two pairs, the caller's list the first one and its own
C17_Witness ==
    /\ last.op = "gen"
    /\ raised = "none"
    /\ Len(Pairs(1)) = 2
    /\ snapshot.of = 1
    /\ snapshot.edits = 1
    /\ snapshot.items = <<Pairs(1)[1], <<0, 0>>>>
    /\ Pairs(1) = <<<<hist[1].made[1].out.rng, hist[1].made[1].new_r>>,
                    <<hist[1].made[2].out.rng, hist[1].made[2].new_r>>>>

\* C20: gen and seed on one manager leave every other manager as it was: its
\* random_state_variables, the variables in it and the values in their
\* containers, and its gen_seedgen. So the k-th seed that a manager draws in
\* gen is the k-th number of the generator made from its own seed.
C20_ManagersIndependent ==
    [][last'.op \in {"gen", "seed"}
          => /\ \A o \in DOMAIN mgr \ {last'.s} :
                   /\ mgr'[o] = mgr[o]
                   /\ hist'[o] = hist[o]
                   /\ \A i \in DOMAIN Pairs(o) :
                         /\ states'[Pairs(o)[i][1]] = states[Pairs(o)[i][1]]
                         /\ StreamValue(o, i)' = StreamValue(o, i)
             /\ \A m \in DOMAIN mgr :
                   /\ \A k \in DOMAIN hist'[m].draws :
                         hist'[m].draws[k] = DrawN(hist[m].start, k)
                   /\ hist[m].given # SeedNone => hist[m].start = RandomState(hist[m].given, 0)
      ]_vars

\* Two managers made with the seed 1, a stream of each, then seed(2) on the
\* first one: the stream of the second holds the state that gen gave it,
\* which is the one the stream of the first was given too
C20_Witness ==
    /\ Len(mgr) = 2
    /\ last.op = "seed" /\ last.s = 1 /\ raised = "none"
    /\ hist[1].given = 1 /\ hist[2].given = 1
    /\ Len(Pairs(1)) = 1 /\ Len(Pairs(2)) = 1
    /\ hist[2].seeds = <<>>
    /\ hist[1].seeds[1].arg = 2
    /\ hist[1].draws = hist[2].draws
    /\ StreamValue(2, 1) = Cell("rng", RandomState(hist[2].draws[1], 0), PyNone)
    /\ StreamValue(1, 1) = Cell("rng", RandomState(hist[1].seeds[1].assigned[1], 0), PyNone)
    /\ StreamValue(1, 1) # StreamValue(2, 1)

----------------------------------------------------------------------------
(* Properties of tags                                                      *)

\* The object that s.tag.a is
TagEntry(tg, sts, s) == tg[sts[s].tag].a

\* What is seen through s.tag
TagView(h, tg, sts, s) == DeepVal(h, TagEntry(tg, sts, s))

Related(s1, s2) == CloneOf(s2, s1) \/ CloneOf(s1, s2)

\* C19 as claimed: right after s2 = s1.clone() both tags show the same, and
\* no later change through the tag of one of them (an entry added, replaced
\* or changed in place) shows through the tag of the other.
C19_TagIndependence ==
    [][/\ (last'.op = "clone" /\ raised' = "none") =>
             TagView(heap', tags', states', Len(states')) = TagView(heap', tags', states', last'.s)
       /\ last'.op \in {"tag_set", "tag_mutate"} =>
             \A s2 \in DOMAIN states :
                (s2 # last'.s /\ Related(last'.s, s2)) =>
                   TagView(heap', tags', states', s2) = TagView(heap, tags, states, s2)
      ]_vars

\* C19 amended: right after s2 = s1.clone() the tag of s2 is another object
\* than the tag of s1 and its entries are the very objects that are the
\* entries of s1.tag; an entry added or replaced in one tag does not show
\* through the other; an entry changed in place shows through the other tag
\* exactly when the other tag holds the same object.
C19_TagShallowCopy ==
    [][/\ (last'.op = "clone" /\ raised' = "none") =>
             /\ states'[Len(states')].tag # states'[last'.s].tag
             /\ TagEntry(tags', states', Len(states')) = TagEntry(tags', states', last'.s)
       /\ last'.op = "tag_set" =>
             \A s2 \in DOMAIN states :
                (s2 # last'.s /\ Related(last'.s, s2)) =>
                   /\ TagView(heap', tags', states', s2) = TagView(heap, tags, states, s2)
                   /\ TagView(heap', tags', states', last'.s) = DeepVal(heap', v')
       /\ last'.op = "tag_mutate" =>
             \A s2 \in DOMAIN states :
                (s2 # last'.s /\ Related(last'.s, s2)) =>
                   ((TagView(heap', tags', states', s2) # TagView(heap, tags, states, s2))
                      <=> TagEntry(tags, states, s2) = TagEntry(tags, states, last'.s))
      ]_vars

\* The entry that the clone took over was changed in place through the tag
\* of the variable it was cloned from, and it shows through both tags
C19_Witness ==
    /\ last = Last("tag_mutate", 1, "-", FALSE)
    /\ Len(states) = 2
    /\ origin[2] = Origin("clone", 1, FALSE, TRUE)
    /\ TagEntry(tags, states, 1) # PyNone
    /\ TagEntry(tags, states, 2) = TagEntry(tags, states, 1)
    /\ TagEntry(tags, states, 1) # v
    /\ heap[TagEntry(tags, states, 1)].kind = "rng"
    /\ heap[TagEntry(tags, states, 1)].data = 1

============================================================================
